---- MODULE Spec2Model ----
(***************************************************************************)
(* Ingestion-and-alerting pipeline of the environmental monitoring data    *)
(* collector (src/src/data_collector.py, src/config/settings.py).          *)
(*                                                                         *)
(* Floating-point measurements are fixed-point integers in tenths          *)
(* (36.0 is 360); motion counts are plain integers; instants are integers. *)
(* JSON strings that are coerced are sequences of one-character strings.   *)
(***************************************************************************)
EXTENDS Integers, Sequences, FiniteSets, TLC

\* ------------------------------------------------------------------ bounds
MaxRows  == 2    \* total rows of sensor_readings the model lets the store hold
MaxLines == 3    \* lines of one historical response
MaxTime  == 1    \* last instant of the wall clock
MaxCalls == 2    \* calls of save_sensor_data one writer makes

\* ------------------------------------------------- config/settings.py
TEMPERATURE_MIN == 150
TEMPERATURE_MAX == 350
HUMIDITY_MIN == 300
HUMIDITY_MAX == 800
BATTERY_LOW == 30

\* The mapping with temperature and humidity exchanged.
SENSOR_FIELDS_swapped ==
  [battery |-> "field1", humidity |-> "field5", motion |-> "field4", temperature |-> "field3"]

SENSOR_FIELDS ==
  [battery |-> "field1", humidity |-> "field3", motion |-> "field4", temperature |-> "field5"]

\* The class-level thresholds of Config as one value.
Config ==
  [TEMPERATURE_MIN |-> TEMPERATURE_MIN, TEMPERATURE_MAX |-> TEMPERATURE_MAX,
   HUMIDITY_MIN |-> HUMIDITY_MIN, HUMIDITY_MAX |-> HUMIDITY_MAX,
   BATTERY_LOW |-> BATTERY_LOW]

\* ------------------------------------------------- JSON values and coercion
Str(s) == [k |-> "str", s |-> s]      \* a JSON string, as its characters
Num(v) == [k |-> "num", v |-> v]      \* a JSON number, in tenths
Null   == [k |-> "null"]              \* JSON null

DigitChars == <<"0", "1", "2", "3", "4", "5", "6", "7", "8", "9">>
IsDigit(c) == \E i \in 1..10 : DigitChars[i] = c
DigitVal(c) == (CHOOSE i \in 1..10 : DigitChars[i] = c) - 1

RECURSIVE DigitsVal(_)
DigitsVal(s) == IF s = <<>> THEN 0 ELSE DigitsVal(SubSeq(s, 1, Len(s) - 1)) * 10 + DigitVal(s[Len(s)])

AllDigits(s) == \A i \in 1..Len(s) : IsDigit(s[i])

Failed == [ok |-> FALSE]
Value(v) == [ok |-> TRUE, v |-> v]

Unsigned(s) == IF s # <<>> /\ s[1] \in {"-", "+"} THEN Tail(s) ELSE s
Sign(s) == IF s # <<>> /\ s[1] = "-" THEN -1 ELSE 1

\* float("...") of a string: an optionally signed decimal literal with at most one
\* fractional digit gives its value in tenths; a string that is no number raises
\* ValueError. (Exponents, padding and finer fractions do not occur in the inputs.)
ParseFloat(s) ==
  LET b == Unsigned(s)
      dots == {i \in 1..Len(b) : b[i] = "."}
  IN  IF dots = {}
        THEN IF b # <<>> /\ AllDigits(b) THEN Value(Sign(s) * DigitsVal(b) * 10) ELSE Failed
      ELSE IF Cardinality(dots) > 1 THEN Failed
      ELSE LET d == CHOOSE i \in dots : TRUE
               ip == SubSeq(b, 1, d - 1)
               fp == SubSeq(b, d + 1, Len(b))
           IN  IF AllDigits(ip) /\ AllDigits(fp) /\ Len(ip) + Len(fp) >= 1 /\ Len(fp) <= 1
                 THEN Value(Sign(s) * (DigitsVal(ip) * 10 + DigitsVal(fp)))
                 ELSE Failed

\* int("...") accepts an optionally signed run of digits only.
ParseInt(s) ==
  LET b == Unsigned(s)
  IN  IF b # <<>> /\ AllDigits(b) THEN Value(Sign(s) * DigitsVal(b)) ELSE Failed

\* Truncation toward zero of a value in tenths: int(2.7) = 2, int(-2.7) = -2.
Trunc(v) == IF v >= 0 THEN v \div 10 ELSE -((-v) \div 10)

\* float(x) for a JSON value x: TypeError on null, ValueError on a bad string.
PyFloat(x) ==
  CASE x.k = "str" -> ParseFloat(x.s)
    [] x.k = "num" -> Value(x.v)
    [] OTHER -> Failed

\* int(x) for a JSON value x.
PyInt(x) ==
  CASE x.k = "str" -> ParseInt(x.s)
    [] x.k = "num" -> Value(Trunc(x.v))
    [] OTHER -> Failed

\* decoded[key] without a default: a missing key yields nothing coercible.
Get_no_default(d, key, default) == IF key \in DOMAIN d THEN d[key] ELSE Null

\* decoded.get(key, default)
Get(d, key, default) == IF key \in DOMAIN d THEN d[key] ELSE default

\* ------------------------------------------------- inputs
\* Character sequences of the string literals that occur in envelopes.
S(a, b, c) == <<a, b, ".", c>>         \* "ab.c"
S1(a, b) == <<a, ".", b>>              \* "a.b"

DeviceTime == 0                        \* the received_at instant a device envelope carries
Times == 1..MaxTime                    \* values datetime.now() can return

\* Envelope with an uplink section, decoded fields d and a capture time.
Envelope(d) == [uplink_message |-> [decoded_payload |-> d, received_at |-> DeviceTime]]
\* The same without a capture time.
EnvelopeNoTime(d) == [uplink_message |-> [decoded_payload |-> d]]

Scenario ==      \* temperature 36.0, humidity 50.0, battery 3.5, motion 0, all strings
  [field5 |-> Str(S("3", "6", "0")), field3 |-> Str(S("5", "0", "0")),
   field1 |-> Str(S1("3", "5")), field4 |-> Str(<<"0">>)]
AtBoundsA ==     \* temperature on the maximum, humidity on the minimum, battery on the low mark
  [field5 |-> Str(S("3", "5", "0")), field3 |-> Str(S("3", "0", "0")),
   field1 |-> Str(S1("3", "0")), field4 |-> Str(<<"-", "2">>)]
AtBoundsB ==     \* temperature on the minimum, humidity on the maximum; JSON numbers
  [field5 |-> Str(<<"1", "5">>), field3 |-> Num(800), field1 |-> Num(30), field4 |-> Num(27)]
NoTempMotion ==  \* temperature and motion missing, humidity 80.1
  [field3 |-> Str(S("8", "0", "1")), field1 |-> Str(S1("3", "5")), field2 |-> Num(10)]
NoHumBat ==      \* humidity and battery missing, temperature 14.9
  [field5 |-> Str(S("1", "4", "9")), field4 |-> Str(<<"7">>)]
BadTemp ==       \* float("abc") raises ValueError
  [field5 |-> Str(<<"a", "b", "c">>), field3 |-> Str(S("2", "0", "0")),
   field1 |-> Str(S1("2", "0")), field4 |-> Str(<<"0">>)]
BadMotion ==     \* int("3.5") raises ValueError; float(None) raises TypeError
  [field5 |-> Str(S("1", "0", "0")), field3 |-> Str(S("5", "0", "0")),
   field1 |-> Str(S1("3", "5")), field4 |-> Str(S1("3", "5"))]

NoUplink == [end_device_ids |-> "lht65n"]
NoDecoded == [uplink_message |-> [received_at |-> DeviceTime]]

\* Payloads a broker message can carry (after json.loads).
Payloads ==
  {Envelope(Scenario), Envelope(AtBoundsA), EnvelopeNoTime(AtBoundsB),
   EnvelopeNoTime(NoTempMotion), Envelope(NoHumBat),
   Envelope(BadTemp), EnvelopeNoTime(BadMotion), NoUplink, NoDecoded}

\* A line of the historical response: blank, not JSON, or a JSON document.
Blank == [k |-> "blank"]
Malformed == [k |-> "bad"]
Doc(p) == [k |-> "json", doc |-> p]
HistoricalDocs == {Envelope(Scenario), EnvelopeNoTime(NoTempMotion), Envelope(BadTemp)}
Lines == {Blank, Malformed} \cup {Doc(p) : p \in HistoricalDocs}

RECURSIVE SeqsUpTo(_, _)
SeqsUpTo(set, n) ==
  IF n = 0 THEN {<<>>}
  ELSE LET shorter == SeqsUpTo(set, n - 1)
       IN  shorter \cup {Append(q, x) : q \in {r \in shorter : Len(r) = n - 1}, x \in set}

\* Bodies of a historical response, as their lines before strip().
Bodies == SeqsUpTo(Lines, MaxLines)

\* Threshold configurations: the shipped one, and ones with a minimum above its maximum.
ThresholdConfigs ==
  {Config,
   [Config EXCEPT !.TEMPERATURE_MIN = 400, !.TEMPERATURE_MAX = 300],
   [Config EXCEPT !.HUMIDITY_MIN = 600, !.HUMIDITY_MAX = 400, !.BATTERY_LOW = 36]}

\* ------------------------------------------------- state
VARIABLES
  readings,         \* table sensor_readings, in rowid order
  alerts,           \* table alerts, in rowid order
  config,           \* the thresholds of Config
  pc,               \* position of run(): "start", "request", "lines", "connect", "loop", "done"
  running,          \* self.running
  is_connected,     \* self.is_connected
  client,           \* self.client: "none", "created" (connect failed), "looping", "stopped"
  lines,            \* fetch_historical_data: the lines of the response
  idx,              \* fetch_historical_data: index of the line the loop is at
  processed_count,  \* fetch_historical_data: processed_count
  fetch_result,     \* value fetch_historical_data returned, NoValue before it returns
  last,             \* the last call of process_message: arguments, outcome, table sizes before
  fetch_log,        \* table sizes when the running fetch started; whether an insert failed in it;
                    \* what made the fetch fail ("request", "snapshot", or "no")
  connection,       \* the broker session: the last connection event, the topic subscribed
  main,             \* main.py: the run mode, EnvironmentalMonitoringSystem.running, process exit
  writers,          \* per store writer: the save_sensor_data call it is in, the calls it made
  response          \* the last answer of the dashboard's query API

vars == <<readings, alerts, config, pc, running, is_connected, client, lines, idx,
          processed_count, fetch_result, last, fetch_log, connection, main,
          writers, response>>

NoValue == [type |-> "none"]
PyBool(b) == [type |-> "bool", b |-> b]     \* a Python bool
PyCount(n) == [type |-> "int", n |-> n]     \* a Python int
\* Python's ==  between bools and ints: True is 1 and False is 0.
PyNum(x) == IF x.type = "bool" THEN (IF x.b THEN 1 ELSE 0) ELSE x.n
PyEq(x, y) == PyNum(x) = PyNum(y)

NoCall == [op |-> "none"]
NoFetch == [nReadings |-> 0, nAlerts |-> 0, dbFailed |-> FALSE, failed |-> "no"]

\* The broker session: accepted says that the most recent connection event was a
\* connect the broker accepted, subscribed that the device topic is subscribed on it.
\* Before any event; after a CONNACK with code rc; after the connection is lost.
NoSession == [accepted |-> FALSE, subscribed |-> FALSE]
Session(rc, subscribes) == [accepted |-> rc = 0, subscribed |-> subscribes]
Closed == [accepted |-> FALSE, subscribed |-> FALSE]

\* The process: mode is "module" (data_collector.py run as a script), "collector"
\* (main.py collector) or "system" (main.py with the collector in a daemon thread);
\* running is EnvironmentalMonitoringSystem.running; shutdown remembers that an
\* operator asked for the shutdown (stop(), an interrupt or a signal).
Main(mode) == [mode |-> mode, running |-> mode = "system", exited |-> FALSE, shutdown |-> FALSE]
Alive == ~main.exited

\* The writers of the store: each opens its own connection for every insert.
Writers == {"backfill", "live"}
\* No writer is inside save_sensor_data and none has made a call.
NoWriters == [w \in Writers |-> [pc |-> "idle", calls |-> <<>>]]
\* The dashboard has answered no query.
NoResponse == [op |-> "none"]

\* ------------------------------------------------- process_message and callees
\* The decoding with a failed coercion replaced by the default instead of raising.
Decode_coercion_defaults(payload, now) ==
  IF "uplink_message" \notin DOMAIN payload THEN [ok |-> FALSE, err |-> "MissingUplink"]
  ELSE LET uplink == payload.uplink_message
       IN  IF "decoded_payload" \notin DOMAIN uplink
             THEN [ok |-> FALSE, err |-> "MissingDecodedFields"]
           ELSE LET decoded == uplink.decoded_payload
                    t == PyFloat(Get(decoded, SENSOR_FIELDS.temperature, Num(0)))
                    h == PyFloat(Get(decoded, SENSOR_FIELDS.humidity, Num(0)))
                    b == PyFloat(Get(decoded, SENSOR_FIELDS.battery, Num(0)))
                    m == PyInt(Get(decoded, SENSOR_FIELDS.motion, Num(0)))
                IN  [ok |-> TRUE,
                     received_at |-> Get(uplink, "received_at", now),
                     temperature |-> IF t.ok THEN t.v ELSE 0,
                     humidity |-> IF h.ok THEN h.v ELSE 0,
                     battery |-> IF b.ok THEN b.v ELSE 0,
                     motion |-> IF m.ok THEN m.v ELSE 0]

\* The decode step reading temperature and humidity from each other's field.
Decode_swapped(payload, now) ==
  IF "uplink_message" \notin DOMAIN payload THEN [ok |-> FALSE, err |-> "MissingUplink"]
  ELSE LET uplink == payload.uplink_message
       IN  IF "decoded_payload" \notin DOMAIN uplink
             THEN [ok |-> FALSE, err |-> "MissingDecodedFields"]
           ELSE LET decoded == uplink.decoded_payload
                    t == PyFloat(Get(decoded, SENSOR_FIELDS_swapped.temperature, Num(0)))
                    h == PyFloat(Get(decoded, SENSOR_FIELDS_swapped.humidity, Num(0)))
                    b == PyFloat(Get(decoded, SENSOR_FIELDS_swapped.battery, Num(0)))
                    m == PyInt(Get(decoded, SENSOR_FIELDS_swapped.motion, Num(0)))
                IN  IF t.ok /\ h.ok /\ b.ok /\ m.ok
                      THEN [ok |-> TRUE,
                            received_at |-> Get(uplink, "received_at", now),
                            temperature |-> t.v, humidity |-> h.v,
                            battery |-> b.v, motion |-> m.v]
                      ELSE [ok |-> FALSE, err |-> "BadFieldType"]

\* Lines 193-210: the decoding part of process_message; now is datetime.now().
Decode(payload, now) ==
  IF "uplink_message" \notin DOMAIN payload THEN [ok |-> FALSE, err |-> "MissingUplink"]
  ELSE LET uplink == payload.uplink_message
       IN  IF "decoded_payload" \notin DOMAIN uplink
             THEN [ok |-> FALSE, err |-> "MissingDecodedFields"]
           ELSE LET decoded == uplink.decoded_payload
                    t == PyFloat(Get(decoded, SENSOR_FIELDS.temperature, Num(0)))
                    h == PyFloat(Get(decoded, SENSOR_FIELDS.humidity, Num(0)))
                    b == PyFloat(Get(decoded, SENSOR_FIELDS.battery, Num(0)))
                    m == PyInt(Get(decoded, SENSOR_FIELDS.motion, Num(0)))
                IN  IF t.ok /\ h.ok /\ b.ok /\ m.ok
                      THEN [ok |-> TRUE,
                            received_at |-> Get(uplink, "received_at", now),
                            temperature |-> t.v, humidity |-> h.v,
                            battery |-> b.v, motion |-> m.v]
                      ELSE [ok |-> FALSE, err |-> "BadFieldType"]

\* Decode is a pure function of the payload and the instant read: its values on the
\* inputs of the model, computed once.
Inputs == Payloads \cup HistoricalDocs
DecodeMemo == [p \in Inputs |-> [t \in Times \cup {DeviceTime} |-> Decode(p, t)]]
Decoded(payload, now) == DecodeMemo[payload][now]

\* save_sensor_data on a table with a uniqueness constraint on the timestamp.
save_sensor_data_unique(tbl, d, raw, dbOk) ==
  IF dbOk /\ ~\E i \in 1..Len(tbl) : tbl[i].timestamp = d.received_at
    THEN [ok |-> TRUE,
          rows |-> Append(tbl, [timestamp |-> d.received_at, temperature |-> d.temperature,
                                humidity |-> d.humidity, battery_voltage |-> d.battery,
                                motion_count |-> d.motion, raw_data |-> raw])]
    ELSE [ok |-> FALSE, rows |-> tbl]

\* save_sensor_data as INSERT OR REPLACE keyed by the timestamp.
save_sensor_data_upsert(tbl, d, raw, dbOk) ==
  IF dbOk
    THEN [ok |-> TRUE,
          rows |-> Append(SelectSeq(tbl, LAMBDA r : r.timestamp # d.received_at),
                          [timestamp |-> d.received_at, temperature |-> d.temperature,
                           humidity |-> d.humidity, battery_voltage |-> d.battery,
                           motion_count |-> d.motion, raw_data |-> raw])]
    ELSE [ok |-> FALSE, rows |-> tbl]

\* save_sensor_data giving the new row the lowest id instead of the highest.
save_sensor_data_prepend(tbl, d, raw, dbOk) ==
  IF dbOk
    THEN [ok |-> TRUE,
          rows |-> <<[timestamp |-> d.received_at, temperature |-> d.temperature,
                      humidity |-> d.humidity, battery_voltage |-> d.battery,
                      motion_count |-> d.motion, raw_data |-> raw]>> \o tbl]
    ELSE [ok |-> FALSE, rows |-> tbl]

\* save_sensor_data: the row appended to tbl when the insert commits (dbOk), and the
\* value returned.
save_sensor_data(tbl, d, raw, dbOk) ==
  IF dbOk
    THEN [ok |-> TRUE,
          rows |-> Append(tbl, [timestamp |-> d.received_at, temperature |-> d.temperature,
                                humidity |-> d.humidity, battery_voltage |-> d.battery,
                                motion_count |-> d.motion, raw_data |-> raw])]
    ELSE [ok |-> FALSE, rows |-> tbl]

Alert(type, text, value, threshold) ==
  [alert_type |-> type, message |-> <<text, value>>, value |-> value, threshold |-> threshold]

\* check_alerts with inclusive comparisons.
check_alerts_inclusive(cfg, temperature, humidity, battery) ==
  (IF temperature <= cfg.TEMPERATURE_MIN
     THEN <<Alert("TEMP_LOW", "Temperature too low", temperature, cfg.TEMPERATURE_MIN)>>
   ELSE IF temperature >= cfg.TEMPERATURE_MAX
     THEN <<Alert("TEMP_HIGH", "Temperature too high", temperature, cfg.TEMPERATURE_MAX)>>
   ELSE <<>>)
  \o
  (IF humidity <= cfg.HUMIDITY_MIN
     THEN <<Alert("HUMIDITY_LOW", "Humidity too low", humidity, cfg.HUMIDITY_MIN)>>
   ELSE IF humidity >= cfg.HUMIDITY_MAX
     THEN <<Alert("HUMIDITY_HIGH", "Humidity too high", humidity, cfg.HUMIDITY_MAX)>>
   ELSE <<>>)
  \o
  (IF battery <= cfg.BATTERY_LOW
     THEN <<Alert("BATTERY_LOW", "Battery low", battery, cfg.BATTERY_LOW)>>
   ELSE <<>>)

\* check_alerts with every elif turned into an if.
check_alerts_independent(cfg, temperature, humidity, battery) ==
  (IF temperature < cfg.TEMPERATURE_MIN
     THEN <<Alert("TEMP_LOW", "Temperature too low", temperature, cfg.TEMPERATURE_MIN)>>
   ELSE <<>>)
  \o
  (IF temperature > cfg.TEMPERATURE_MAX
     THEN <<Alert("TEMP_HIGH", "Temperature too high", temperature, cfg.TEMPERATURE_MAX)>>
   ELSE <<>>)
  \o
  (IF humidity < cfg.HUMIDITY_MIN
     THEN <<Alert("HUMIDITY_LOW", "Humidity too low", humidity, cfg.HUMIDITY_MIN)>>
   ELSE <<>>)
  \o
  (IF humidity > cfg.HUMIDITY_MAX
     THEN <<Alert("HUMIDITY_HIGH", "Humidity too high", humidity, cfg.HUMIDITY_MAX)>>
   ELSE <<>>)
  \o
  (IF battery < cfg.BATTERY_LOW
     THEN <<Alert("BATTERY_LOW", "Battery low", battery, cfg.BATTERY_LOW)>>
   ELSE <<>>)

\* check_alerts taking a zero for "not measured" and leaving it unchecked.
check_alerts_skips_zero(cfg, temperature, humidity, battery) ==
  (IF temperature # 0 /\ temperature < cfg.TEMPERATURE_MIN
     THEN <<Alert("TEMP_LOW", "Temperature too low", temperature, cfg.TEMPERATURE_MIN)>>
   ELSE IF temperature > cfg.TEMPERATURE_MAX
     THEN <<Alert("TEMP_HIGH", "Temperature too high", temperature, cfg.TEMPERATURE_MAX)>>
   ELSE <<>>)
  \o
  (IF humidity # 0 /\ humidity < cfg.HUMIDITY_MIN
     THEN <<Alert("HUMIDITY_LOW", "Humidity too low", humidity, cfg.HUMIDITY_MIN)>>
   ELSE IF humidity > cfg.HUMIDITY_MAX
     THEN <<Alert("HUMIDITY_HIGH", "Humidity too high", humidity, cfg.HUMIDITY_MAX)>>
   ELSE <<>>)
  \o
  (IF battery # 0 /\ battery < cfg.BATTERY_LOW
     THEN <<Alert("BATTERY_LOW", "Battery low", battery, cfg.BATTERY_LOW)>>
   ELSE <<>>)

\* Lines 112-125 of check_alerts: the list `alerts` it builds under thresholds cfg.
check_alerts(cfg, temperature, humidity, battery) ==
  (IF temperature < cfg.TEMPERATURE_MIN
     THEN <<Alert("TEMP_LOW", "Temperature too low", temperature, cfg.TEMPERATURE_MIN)>>
   ELSE IF temperature > cfg.TEMPERATURE_MAX
     THEN <<Alert("TEMP_HIGH", "Temperature too high", temperature, cfg.TEMPERATURE_MAX)>>
   ELSE <<>>)
  \o
  (IF humidity < cfg.HUMIDITY_MIN
     THEN <<Alert("HUMIDITY_LOW", "Humidity too low", humidity, cfg.HUMIDITY_MIN)>>
   ELSE IF humidity > cfg.HUMIDITY_MAX
     THEN <<Alert("HUMIDITY_HIGH", "Humidity too high", humidity, cfg.HUMIDITY_MAX)>>
   ELSE <<>>)
  \o
  (IF battery < cfg.BATTERY_LOW
     THEN <<Alert("BATTERY_LOW", "Battery low", battery, cfg.BATTERY_LOW)>>
   ELSE <<>>)

\* save_alerts committing after every row: a failure keeps the rows before it.
save_alerts_commit_each(tbl, batch, stamps, alertsOk) ==
  LET n == IF alertsOk THEN Len(batch) ELSE 1
  IN  tbl \o [i \in 1..n |->
                [timestamp |-> stamps[i], alert_type |-> batch[i].alert_type,
                 message |-> batch[i].message, value |-> batch[i].value,
                 threshold |-> batch[i].threshold, resolved |-> FALSE]]

\* save_alerts on a connection in autocommit mode, failing on its last row: the rows
\* before it stay.
save_alerts_autocommit(tbl, batch, stamps, alertsOk) ==
  LET n == IF alertsOk THEN Len(batch) ELSE Len(batch) - 1
  IN  tbl \o [i \in 1..n |->
                [timestamp |-> stamps[i], alert_type |-> batch[i].alert_type,
                 message |-> batch[i].message, value |-> batch[i].value,
                 threshold |-> batch[i].threshold, resolved |-> FALSE]]

\* save_alerts: one transaction; every row takes its own datetime.now() (stamps[i]).
\* An exception anywhere before the commit returns (alertsOk false) leaves no row.
save_alerts(tbl, batch, stamps, alertsOk) ==
  IF alertsOk
    THEN tbl \o [i \in 1..Len(batch) |->
                   [timestamp |-> stamps[i], alert_type |-> batch[i].alert_type,
                    message |-> batch[i].message, value |-> batch[i].value,
                    threshold |-> batch[i].threshold, resolved |-> FALSE]]
    ELSE tbl

\* Lines 127-129 of check_alerts: save the alerts if there are any.
check_and_save(tbl, cfg, d, stamps, alertsOk) ==
  LET batch == check_alerts(cfg, d.temperature, d.humidity, d.battery)
  IN  IF batch # <<>> THEN save_alerts(tbl, batch, stamps, alertsOk) ELSE tbl

\* process_message with the is_historical test of line 216 dropped.
process_message_alerts_always(payload, is_historical, now, stamps, dbOk, alertsOk) ==
  LET d == Decoded(payload, now)
  IN  IF ~d.ok THEN [success |-> FALSE, readings |-> readings, alerts |-> alerts]
      ELSE LET saved == save_sensor_data(readings, d, payload, dbOk)
           IN  [success |-> saved.ok,
                readings |-> saved.rows,
                alerts |-> IF saved.ok
                             THEN check_and_save(alerts, config, d, stamps, alertsOk)
                             ELSE alerts]

\* process_message evaluating the alerts whether or not the reading was saved.
process_message_alerts_before_save(payload, is_historical, now, stamps, dbOk, alertsOk) ==
  LET d == Decoded(payload, now)
  IN  IF ~d.ok THEN [success |-> FALSE, readings |-> readings, alerts |-> alerts]
      ELSE LET saved == save_sensor_data(readings, d, payload, dbOk)
           IN  [success |-> saved.ok,
                readings |-> saved.rows,
                alerts |-> IF ~is_historical
                             THEN check_and_save(alerts, config, d, stamps, alertsOk)
                             ELSE alerts]

\* process_message: the tables after the call and the value returned.
process_message(payload, is_historical, now, stamps, dbOk, alertsOk) ==
  LET d == Decoded(payload, now)
  IN  IF ~d.ok THEN [success |-> FALSE, readings |-> readings, alerts |-> alerts]
      ELSE LET saved == save_sensor_data(readings, d, payload, dbOk)
           IN  [success |-> saved.ok,
                readings |-> saved.rows,
                alerts |-> IF saved.ok /\ ~is_historical
                             THEN check_and_save(alerts, config, d, stamps, alertsOk)
                             ELSE alerts]

\* What save_alerts gives its caller: it has no return statement, on the path that
\* commits as on the path that catches the exception.
save_alerts_returns(alertsOk) == NoValue

\* What the model remembers of a process_message call: its arguments, the outcomes of
\* the store, the value returned, the value save_alerts gave back, that the snapshot
\* file was written before the call, the table sizes.
Call(op, payload, dbOk, alertsOk, success) ==
  [op |-> op, payload |-> payload, dbOk |-> dbOk, alertsOk |-> alertsOk,
   success |-> success, alerts_result |-> save_alerts_returns(alertsOk),
   snapshot |-> TRUE, nReadings |-> Len(readings), nAlerts |-> Len(alerts)]

\* The outcomes of the store the environment can produce for one call: an insert of a
\* reading can succeed only while the table has room.
DbOutcomes(payload) ==
  IF ~Decoded(payload, DeviceTime).ok THEN {TRUE}     \* the store is not reached
  ELSE IF Len(readings) < MaxRows THEN BOOLEAN ELSE {FALSE}
\* The outcomes of the alert transaction: it runs only for a non-empty batch.
AlertOutcomes(payload, dbOk) ==
  LET d == Decoded(payload, DeviceTime)
  IN  IF d.ok /\ dbOk /\ check_alerts(config, d.temperature, d.humidity, d.battery) # <<>>
        THEN BOOLEAN ELSE {TRUE}
\* The instants datetime.now() can return for the capture-time default of line 204:
\* the choice is immaterial when received_at is present or decoding fails.
Nows(payload) ==
  LET d == Decoded(payload, DeviceTime)
  IN  IF d.ok /\ "received_at" \notin DOMAIN payload.uplink_message
        THEN Times ELSE {CHOOSE t \in Times : TRUE}

\* The instants datetime.now() returns to save_alerts for the alerts of payload: one
\* per row, none earlier than the one before it or than now.
Stamps(payload, now) ==
  LET d == Decoded(payload, now)
      n == IF d.ok THEN Len(check_alerts(config, d.temperature, d.humidity, d.battery)) ELSE 0
      from == IF d.ok /\ d.received_at = now THEN now ELSE CHOOSE t \in Times : \A u \in Times : t <= u
  IN  {st \in [1..n -> Times] :
         /\ \A i \in 1..n : st[i] >= from
         /\ \A i \in 1..(n - 1) : st[i] <= st[i + 1]}

\* ------------------------------------------------- fetch_historical_data
\* response.text.strip().split('\n'): leading and trailing blank lines go; an empty
\* text still splits into one empty line.
RECURSIVE LStrip(_)
LStrip(body) == IF body # <<>> /\ Head(body) = Blank THEN LStrip(Tail(body)) ELSE body
RECURSIVE RStrip(_)
RStrip(body) ==
  IF body # <<>> /\ body[Len(body)] = Blank THEN RStrip(SubSeq(body, 1, Len(body) - 1)) ELSE body
StripSplit(body) == LET b == RStrip(LStrip(body)) IN IF b = <<>> THEN <<Blank>> ELSE b

\* run(), lines 296-301: set running and call fetch_historical_data.
Run ==
  /\ Alive
  /\ pc = "start"
  /\ running' = TRUE
  /\ pc' = "request"
  /\ UNCHANGED <<readings, alerts, config, is_connected, client, lines, idx,
                 processed_count, fetch_result, last, fetch_log, connection, main,
                 writers, response>>

\* Lines 153-168: the request succeeds with status 200 and the snapshot file is written.
FetchOkFrom(bodies) ==
  /\ Alive
  /\ pc = "request"
  /\ \E body \in bodies :
       /\ lines' = StripSplit(body)
       /\ idx' = 1
       /\ processed_count' = 0
       /\ fetch_log' = [nReadings |-> Len(readings), nAlerts |-> Len(alerts),
                        dbFailed |-> FALSE, failed |-> "no"]
  /\ pc' = "lines"
  /\ UNCHANGED <<readings, alerts, config, running, is_connected, client, fetch_result, last,
                 connection, main,
                 writers, response>>

FetchOk == FetchOkFrom(Bodies)

\* A failed fetch ending run() instead of returning False to it.
FetchFail_ends_run ==
  /\ Alive
  /\ pc = "request"
  /\ fetch_result' = PyBool(FALSE)
  /\ pc' = "done"
  /\ UNCHANGED <<readings, alerts, config, running, is_connected, client, lines, idx,
                 processed_count, last, fetch_log, connection, main,
                 writers, response>>

\* Lines 182-188: a status other than 200 or an exception of the request ("request"),
\* or status 200 and an exception of the snapshot write of lines 162-164 ("snapshot");
\* the call returns False before the loop over the lines.
FetchFail ==
  /\ Alive
  /\ pc = "request"
  /\ fetch_result' = PyBool(FALSE)
  /\ pc' = "connect"
  /\ \E cause \in {"request", "snapshot"} :
       fetch_log' = [nReadings |-> Len(readings), nAlerts |-> Len(alerts),
                     dbFailed |-> FALSE, failed |-> cause]
  /\ UNCHANGED <<readings, alerts, config, running, is_connected, client, lines, idx,
                 processed_count, last, connection, main,
                 writers, response>>

\* The loop iteration that gives up the batch at a line that is not JSON.
FetchLine_abort_batch ==
  /\ Alive
  /\ pc = "lines"
  /\ idx <= Len(lines)
  /\ idx' = IF lines[idx].k = "bad" THEN Len(lines) + 1 ELSE idx + 1
  /\ IF lines[idx].k = "json"
       THEN \E now \in Nows(lines[idx].doc), dbOk \in DbOutcomes(lines[idx].doc) :
              LET r == process_message(lines[idx].doc, TRUE, now, [i \in 1..3 |-> now], dbOk, TRUE)
              IN  /\ readings' = r.readings
                  /\ alerts' = r.alerts
                  /\ processed_count' = IF r.success THEN processed_count + 1 ELSE processed_count
                  /\ last' = Call("backfill", lines[idx].doc, dbOk, TRUE, r.success)
                  /\ fetch_log' = [fetch_log EXCEPT !.dbFailed =
                                     @ \/ (Decoded(lines[idx].doc, now).ok /\ ~dbOk)]
       ELSE UNCHANGED <<readings, alerts, processed_count, last, fetch_log>>
  /\ UNCHANGED <<config, pc, running, is_connected, client, lines, fetch_result, connection, main,
                 writers, response>>

\* The loop iteration that counts every JSON line, ingested or not.
FetchLine_count_documents ==
  /\ Alive
  /\ pc = "lines"
  /\ idx <= Len(lines)
  /\ idx' = idx + 1
  /\ IF lines[idx].k = "json"
       THEN \E now \in Nows(lines[idx].doc), dbOk \in DbOutcomes(lines[idx].doc) :
              LET r == process_message(lines[idx].doc, TRUE, now, [i \in 1..3 |-> now], dbOk, TRUE)
              IN  /\ readings' = r.readings
                  /\ alerts' = r.alerts
                  /\ processed_count' = processed_count + 1
                  /\ last' = Call("backfill", lines[idx].doc, dbOk, TRUE, r.success)
                  /\ fetch_log' = [fetch_log EXCEPT !.dbFailed =
                                     @ \/ (Decoded(lines[idx].doc, now).ok /\ ~dbOk)]
       ELSE UNCHANGED <<readings, alerts, processed_count, last, fetch_log>>
  /\ UNCHANGED <<config, pc, running, is_connected, client, lines, fetch_result, connection, main,
                 writers, response>>

\* Lines 170-177: one iteration of the loop over the lines.
FetchLine ==
  /\ Alive
  /\ pc = "lines"
  /\ idx <= Len(lines)
  /\ idx' = idx + 1
  /\ IF lines[idx].k = "json"
       THEN \E now \in Nows(lines[idx].doc), dbOk \in DbOutcomes(lines[idx].doc) :
              LET r == process_message(lines[idx].doc, TRUE, now, [i \in 1..3 |-> now], dbOk, TRUE)
              IN  /\ readings' = r.readings
                  /\ alerts' = r.alerts
                  /\ processed_count' = IF r.success THEN processed_count + 1 ELSE processed_count
                  /\ last' = Call("backfill", lines[idx].doc, dbOk, TRUE, r.success)
                  /\ fetch_log' = [fetch_log EXCEPT !.dbFailed =
                                     @ \/ (Decoded(lines[idx].doc, now).ok /\ ~dbOk)]
       ELSE UNCHANGED <<readings, alerts, processed_count, last, fetch_log>>
  /\ UNCHANGED <<config, pc, running, is_connected, client, lines, fetch_result, connection, main,
                 writers, response>>

\* The end of the loop reporting a failure when an insert of the batch failed.
FetchReturn_fails_on_errors ==
  /\ Alive
  /\ pc = "lines"
  /\ idx > Len(lines)
  /\ fetch_result' = PyBool(~fetch_log.dbFailed)
  /\ pc' = "connect"
  /\ lines' = <<>>
  /\ idx' = 1
  /\ processed_count' = 0
  /\ fetch_log' = NoFetch
  /\ UNCHANGED <<readings, alerts, config, running, is_connected, client, last, connection, main,
                 writers, response>>

\* Lines 179-180: the loop is over; log the count and return True. The locals of
\* the call are gone once it has returned.
FetchReturn ==
  /\ Alive
  /\ pc = "lines"
  /\ idx > Len(lines)
  /\ fetch_result' = PyBool(TRUE)
  /\ pc' = "connect"
  /\ lines' = <<>>
  /\ idx' = 1
  /\ processed_count' = 0
  /\ fetch_log' = NoFetch
  /\ UNCHANGED <<readings, alerts, config, running, is_connected, client, last, connection, main,
                 writers, response>>

\* ------------------------------------------------- live client
\* The live client started without waiting for fetch_historical_data to return.
StartMqttOk_during_backfill ==
  /\ Alive
  /\ pc \in {"request", "lines", "connect"}
  /\ client' = "looping"
  /\ pc' = IF pc = "connect" THEN "loop" ELSE pc
  /\ fetch_result' = NoValue
  /\ UNCHANGED <<readings, alerts, config, running, is_connected, lines, idx,
                 processed_count, last, fetch_log, connection, main,
                 writers, response>>

\* start_mqtt_client, lines 268-281: client created, connect and loop_start succeed.
\* run() has dropped the value fetch_historical_data returned (line 301).
StartMqttOk ==
  /\ Alive
  /\ pc = "connect"
  /\ client' = "looping"
  /\ pc' = "loop"
  /\ fetch_result' = NoValue
  /\ fetch_log' = NoFetch
  /\ UNCHANGED <<readings, alerts, config, running, is_connected, lines, idx,
                 processed_count, last, connection, main,
                 writers, response>>

\* start_mqtt_client, lines 283-285, and run(), lines 313-314: connect raises, the
\* function returns False and run() ends.
StartMqttFail ==
  /\ Alive
  /\ pc = "connect"
  /\ client' = "created"
  /\ pc' = "done"
  /\ fetch_result' = NoValue
  /\ fetch_log' = NoFetch
  /\ UNCHANGED <<readings, alerts, config, running, is_connected, lines, idx,
                 processed_count, last, connection, main,
                 writers, response>>

\* on_connect setting the flag without looking at the return code.
OnConnect_ignores_rc ==
  /\ Alive
  /\ client = "looping"
  /\ \E rc \in {0, 5} :
       /\ is_connected' = TRUE
       /\ connection' = Session(rc, rc = 0)
  /\ UNCHANGED <<readings, alerts, config, pc, running, client, lines, idx,
                 processed_count, fetch_result, last, fetch_log, main,
                 writers, response>>

\* on_connect with return code rc (0 is success): on success the flag is set and the
\* device topic subscribed.
OnConnect ==
  /\ Alive
  /\ client = "looping"
  /\ \E rc \in {0, 5} :
       /\ is_connected' = (rc = 0)
       /\ connection' = Session(rc, rc = 0)
  /\ UNCHANGED <<readings, alerts, config, pc, running, client, lines, idx,
                 processed_count, fetch_result, last, fetch_log, main,
                 writers, response>>

\* on_disconnect.
OnDisconnect ==
  /\ Alive
  /\ client = "looping"
  /\ is_connected' = FALSE
  /\ connection' = Closed
  /\ UNCHANGED <<readings, alerts, config, pc, running, client, lines, idx,
                 processed_count, fetch_result, last, fetch_log, main,
                 writers, response>>

\* Messages the broker delivers: a JSON document or bytes that are not JSON.
Messages == {Malformed} \cup {Doc(p) : p \in Payloads}

\* What the model remembers of a message on_message gave up before process_message.
Dropped(cause) ==
  [op |-> "dropped", cause |-> cause, success |-> FALSE,
   nReadings |-> Len(readings), nAlerts |-> Len(alerts)]
\* Line 254 raises on a message that is not JSON ("parse"); lines 257-258 raise when
\* the snapshot file cannot be written ("snapshot").
CauseOf(msg) == IF msg.k = "json" THEN "snapshot" ELSE "parse"

\* on_message going on to process_message when the snapshot file could not be written.
OnMessageFrom_snapshot_optional(messages) ==
  /\ Alive
  /\ client = "looping"
  /\ is_connected
  /\ \E msg \in messages, snapOk \in BOOLEAN :
       IF msg.k = "json"
         THEN \E now \in Nows(msg.doc), dbOk \in DbOutcomes(msg.doc) :
                \E stamps \in Stamps(msg.doc, now), alertsOk \in AlertOutcomes(msg.doc, dbOk) :
                  LET r == process_message(msg.doc, FALSE, now, stamps, dbOk, alertsOk)
                  IN  /\ readings' = r.readings
                      /\ alerts' = r.alerts
                      /\ last' = [Call("live", msg.doc, dbOk, alertsOk, r.success)
                                    EXCEPT !.snapshot = snapOk]
         ELSE /\ last' = Dropped(CauseOf(msg))
              /\ UNCHANGED <<readings, alerts>>
  /\ UNCHANGED <<config, pc, running, is_connected, client, lines, idx,
                 processed_count, fetch_result, fetch_log, connection, main,
                 writers, response>>

\* on_message without its except clause: an exception of the parse or of the snapshot
\* write escapes the callback and ends the network loop of the client.
OnMessageFrom_unguarded(messages) ==
  /\ Alive
  /\ client = "looping"
  /\ is_connected
  /\ \E msg \in messages, snapOk \in BOOLEAN :
       IF msg.k = "json" /\ snapOk
         THEN \E now \in Nows(msg.doc), dbOk \in DbOutcomes(msg.doc) :
                \E stamps \in Stamps(msg.doc, now), alertsOk \in AlertOutcomes(msg.doc, dbOk) :
                  LET r == process_message(msg.doc, FALSE, now, stamps, dbOk, alertsOk)
                  IN  /\ readings' = r.readings
                      /\ alerts' = r.alerts
                      /\ last' = Call("live", msg.doc, dbOk, alertsOk, r.success)
                      /\ UNCHANGED <<is_connected, client, connection>>
         ELSE /\ last' = Dropped(CauseOf(msg))
              /\ is_connected' = FALSE
              /\ client' = "stopped"
              /\ connection' = Closed
              /\ UNCHANGED <<readings, alerts>>
  /\ UNCHANGED <<config, pc, running, lines, idx, processed_count, fetch_result, fetch_log, main,
                 writers, response>>

\* on_message: parse, write the snapshot file (snapOk), process the payload. A message
\* arrives only on a connection the broker accepted. Every exception is caught and
\* logged (lines 263-264).
OnMessageFrom(messages) ==
  /\ Alive
  /\ client = "looping"
  /\ is_connected
  /\ \E msg \in messages, snapOk \in BOOLEAN :
       IF msg.k = "json" /\ snapOk
         THEN \E now \in Nows(msg.doc), dbOk \in DbOutcomes(msg.doc) :
                \E stamps \in Stamps(msg.doc, now), alertsOk \in AlertOutcomes(msg.doc, dbOk) :
                  LET r == process_message(msg.doc, FALSE, now, stamps, dbOk, alertsOk)
                  IN  /\ readings' = r.readings
                      /\ alerts' = r.alerts
                      /\ last' = Call("live", msg.doc, dbOk, alertsOk, r.success)
         ELSE /\ last' = Dropped(CauseOf(msg))
              /\ UNCHANGED <<readings, alerts>>
  /\ UNCHANGED <<config, pc, running, is_connected, client, lines, idx,
                 processed_count, fetch_result, fetch_log, connection, main,
                 writers, response>>

OnMessage == OnMessageFrom(Messages)

\* stop(): clear the running flag. The call is followed until run() has returned.
Stop ==
  /\ Alive
  /\ pc # "done"
  /\ running' = FALSE
  /\ main' = [main EXCEPT !.shutdown = TRUE]
  /\ UNCHANGED <<readings, alerts, config, pc, is_connected, client, lines, idx,
                 processed_count, fetch_result, last, fetch_log, connection,
                 writers, response>>

\* stop_mqtt_client on a client that exists: loop_stop, then disconnect. Whether the
\* library still calls on_disconnect once its loop thread is stopped is the library's
\* choice (notified).
stop_mqtt_client(notified) ==
  /\ client' = "stopped"
  /\ is_connected' = IF notified THEN FALSE ELSE is_connected
  /\ connection' = IF notified THEN Closed ELSE connection

\* KeyboardInterrupt reaches run() only under the default SIGINT handler, which
\* main.py replaces (lines 114-115).
Interrupts == IF main.mode = "module" THEN BOOLEAN ELSE {FALSE}

\* run(), lines 306-312: the loop sees running false, or an interrupt is raised in
\* it; stop_mqtt_client runs in the finally clause and run() returns.
LoopExit ==
  /\ Alive
  /\ pc = "loop"
  /\ \E interrupted \in Interrupts, notified \in BOOLEAN :
       /\ interrupted \/ ~running
       /\ stop_mqtt_client(notified)
       /\ main' = [main EXCEPT !.shutdown = @ \/ interrupted]
  /\ pc' = "done"
  /\ UNCHANGED <<readings, alerts, config, running, lines, idx,
                 processed_count, fetch_result, last, fetch_log,
                 writers, response>>

\* ------------------------------------------------- specification
\* The state after SensorDataCollector() ran setup_database on a fresh database file.
Init ==
  /\ readings = <<>>
  /\ alerts = <<>>
  /\ config = Config
  /\ pc = "start"
  /\ running = FALSE
  /\ is_connected = FALSE
  /\ client = "none"
  /\ lines = <<>>
  /\ idx = 1
  /\ processed_count = 0
  /\ fetch_result = NoValue
  /\ last = NoCall
  /\ fetch_log = NoFetch
  /\ connection = NoSession
  /\ writers = NoWriters
  /\ response = NoResponse
  /\ main = Main("module")

Next ==
  \/ Run
  \/ FetchOk
  \/ FetchFail
  \/ FetchLine
  \/ FetchReturn
  \/ StartMqttOk
  \/ StartMqttFail
  \/ OnConnect
  \/ OnDisconnect
  \/ OnMessage
  \/ Stop
  \/ LoopExit

Spec == Init /\ [][Next]_vars

\* ------------------------------------------------- the collector under main.py
\* The inputs of the runs under main.py: a response of at most one line, a message.
SystemLines == {Malformed, Doc(Envelope(Scenario))}
SystemBodies == SeqsUpTo(SystemLines, 1)
SystemMessages == SystemLines

SystemFetchOk == FetchOkFrom(SystemBodies)
SystemOnMessage == OnMessageFrom(SystemMessages)

\* signal_handler on SIGINT or SIGTERM: sys.exit(0) raises SystemExit in the main
\* thread. In collector mode the main thread is inside run(): no except clause there
\* catches SystemExit, and only the finally clause of the loop (line 312) runs on the
\* way out. In system mode the main thread is in start(), whose except clause names
\* KeyboardInterrupt only; the process ends and its daemon threads end with it.
Signal ==
  /\ Alive
  /\ main.mode \in {"collector", "system"}
  /\ IF main.mode = "collector" /\ pc = "loop"
       THEN /\ \E notified \in BOOLEAN : stop_mqtt_client(notified)
            /\ pc' = "done"
       ELSE UNCHANGED <<client, is_connected, connection, pc>>
  /\ main' = [main EXCEPT !.exited = TRUE, !.shutdown = TRUE]
  /\ UNCHANGED <<readings, alerts, config, running, lines, idx, processed_count,
                 fetch_result, last, fetch_log,
                 writers, response>>

\* EnvironmentalMonitoringSystem.stop: clear its running flag and call collector.stop().
SystemStop ==
  /\ Alive
  /\ main.mode = "system"
  /\ main.running
  /\ main' = [main EXCEPT !.running = FALSE, !.shutdown = TRUE]
  /\ running' = FALSE
  /\ UNCHANGED <<readings, alerts, config, pc, is_connected, client, lines, idx,
                 processed_count, fetch_result, last, fetch_log, connection,
                 writers, response>>

\* The main thread reaches the end of main.py: in system mode once the loop of start()
\* sees running false, in collector mode once run() has returned. Daemon threads are
\* not waited for.
MainExit ==
  /\ Alive
  /\ \/ main.mode = "system" /\ ~main.running
     \/ main.mode = "collector" /\ pc = "done"
  /\ main' = [main EXCEPT !.exited = TRUE]
  /\ UNCHANGED <<readings, alerts, config, pc, running, is_connected, client, lines, idx,
                 processed_count, fetch_result, last, fetch_log, connection,
                 writers, response>>

\* The query API of the dashboard, which the complete system runs in a thread of its
\* own (main.py lines 38-59) on the database the collector writes.
\* ORDER BY timestamp DESC: the rows in any order that is descending by timestamp.
OrderByTimestampDesc(rows) ==
  {[i \in 1..Len(rows) |-> rows[f[i]]] :
     f \in {g \in Permutations(1..Len(rows)) :
              \A i, j \in 1..Len(rows) : i < j => rows[g[i]].timestamp >= rows[g[j]].timestamp}}
\* LIMIT n of SQLite: the first n rows; a negative n means no upper bound.
SqlLimit(rows, n) ==
  IF n < 0 THEN rows ELSE SubSeq(rows, 1, IF n < Len(rows) THEN n ELSE Len(rows))

\* The values of limit the route hands over: request.args.get('limit', 10, type=int)
\* accepts every integer.
Limits == {-1, 0, 1}

\* get_alerts, lines 152-176: the answers the query can give for limit.
get_alerts(limit) ==
  {[i \in 1..Len(r) |->
      [timestamp |-> r[i].timestamp, type |-> r[i].alert_type, message |-> r[i].message,
       value |-> r[i].value, threshold |-> r[i].threshold, resolved |-> r[i].resolved]] :
     r \in {SqlLimit(o, limit) : o \in OrderByTimestampDesc(alerts)}}

\* The live messages that arrive while the dashboard is being queried.
DashMessages == {Malformed, Doc(Envelope(Scenario)), Doc(Envelope(AtBoundsA))}

\* /api/alerts?limit=: the answer of get_alerts, or [] when the query raised
\* (lines 178-180).
ApiAlerts ==
  /\ Alive
  /\ main.mode = "system"
  /\ \E limit \in Limits, ok \in BOOLEAN :
       \E rows \in (IF ok THEN get_alerts(limit) ELSE {<<>>}) :
         response' = [op |-> "alerts", limit |-> limit, ok |-> ok, rows |-> rows]
  /\ UNCHANGED <<readings, alerts, config, pc, running, is_connected, client, lines, idx,
                 processed_count, fetch_result, last, fetch_log, connection, main, writers>>

\* /api/latest: get_latest_reading, the row with the greatest timestamp, or None.
ApiLatest ==
  /\ Alive
  /\ main.mode = "system"
  /\ \E ok \in BOOLEAN :
       \E rows \in (IF ok THEN {SqlLimit(o, 1) : o \in OrderByTimestampDesc(readings)}
                           ELSE {<<>>}) :
         response' = [op |-> "latest", ok |-> ok,
                      reading |-> IF rows = <<>> THEN NoValue
                                  ELSE [timestamp |-> rows[1].timestamp,
                                        temperature |-> rows[1].temperature,
                                        humidity |-> rows[1].humidity,
                                        battery |-> rows[1].battery_voltage,
                                        motion |-> rows[1].motion_count]]
  /\ UNCHANGED <<readings, alerts, config, pc, running, is_connected, client, lines, idx,
                 processed_count, fetch_result, last, fetch_log, connection, main, writers>>

\* main.py started in collector mode or as the complete system, on a fresh database.
InitSystem ==
  /\ readings = <<>>
  /\ alerts = <<>>
  /\ config = Config
  /\ pc = "start"
  /\ running = FALSE
  /\ is_connected = FALSE
  /\ client = "none"
  /\ lines = <<>>
  /\ idx = 1
  /\ processed_count = 0
  /\ fetch_result = NoValue
  /\ last = NoCall
  /\ fetch_log = NoFetch
  /\ connection = NoSession
  /\ writers = NoWriters
  /\ response = NoResponse
  /\ main \in {Main("collector"), Main("system")}

NextSystem ==
  \/ Run
  \/ SystemFetchOk
  \/ FetchFail
  \/ FetchLine
  \/ FetchReturn
  \/ StartMqttOk
  \/ StartMqttFail
  \/ OnConnect
  \/ OnDisconnect
  \/ SystemOnMessage
  \/ LoopExit
  \/ Signal
  \/ SystemStop
  \/ MainExit

\* run() is sequential code: while the process lives, the statement it is at is
\* executed, and the request of line 157 returns or times out.
RunFairness ==
  /\ WF_vars(Run)
  /\ WF_vars(SystemFetchOk \/ FetchFail)
  /\ WF_vars(FetchLine)
  /\ WF_vars(FetchReturn)
  /\ WF_vars(StartMqttOk \/ StartMqttFail)

SystemSpec == InitSystem /\ [][NextSystem]_vars /\ RunFairness

\* The complete system with its dashboard: the collector thread ingests while the
\* query API is being called.
DashOnMessage == OnMessageFrom(DashMessages)

InitDash ==
  /\ InitSystem
  /\ main.mode = "system"

NextDash ==
  \/ Run
  \/ SystemFetchOk
  \/ FetchFail
  \/ FetchLine
  \/ FetchReturn
  \/ StartMqttOk
  \/ StartMqttFail
  \/ OnConnect
  \/ OnDisconnect
  \/ DashOnMessage
  \/ LoopExit
  \/ Signal
  \/ SystemStop
  \/ MainExit
  \/ ApiAlerts
  \/ ApiLatest

DashSpec == InitDash /\ [][NextDash]_vars

\* ------------------------------------------------- the evaluator on its own
\* Measurements around every threshold of every configuration, and the zero default.
Around(set) == {0} \cup UNION {{x - 1, x, x + 1} : x \in set}
Temperatures == Around({c.TEMPERATURE_MIN : c \in ThresholdConfigs} \cup {c.TEMPERATURE_MAX : c \in ThresholdConfigs})
Humidities == Around({c.HUMIDITY_MIN : c \in ThresholdConfigs} \cup {c.HUMIDITY_MAX : c \in ThresholdConfigs})
Batteries == Around({c.BATTERY_LOW : c \in ThresholdConfigs})

\* The collector constructed under any of the threshold configurations.
InitEval ==
  /\ config \in ThresholdConfigs
  /\ readings = <<>>
  /\ alerts = <<>>
  /\ pc = "start"
  /\ running = FALSE
  /\ is_connected = FALSE
  /\ client = "none"
  /\ lines = <<>>
  /\ idx = 1
  /\ processed_count = 0
  /\ fetch_result = NoValue
  /\ last = NoCall
  /\ fetch_log = NoFetch
  /\ connection = NoSession
  /\ writers = NoWriters
  /\ response = NoResponse
  /\ main = Main("module")

\* Lines 112-125 of check_alerts applied to one reading; the list it builds is kept.
Evaluate ==
  /\ \E t \in Temperatures, h \in Humidities, b \in Batteries :
       last' = [op |-> "evaluate", temperature |-> t, humidity |-> h, battery |-> b,
                batch |-> check_alerts(config, t, h, b)]
  /\ UNCHANGED <<readings, alerts, config, pc, running, is_connected, client, lines, idx,
                 processed_count, fetch_result, fetch_log, connection, main,
                 writers, response>>

EvalSpec == InitEval /\ [][Evaluate]_vars

\* ------------------------------------------------- the decode step on its own
\* The decimal text of a number in tenths, with one fractional digit: "36.0", "-0.5".
RECURSIVE FormatNat(_)
FormatNat(n) ==
  IF n < 10 THEN <<DigitChars[n + 1]>>
  ELSE Append(FormatNat(n \div 10), DigitChars[(n % 10) + 1])
Abs(v) == IF v < 0 THEN -v ELSE v
FormatFloat(v) ==
  (IF v < 0 THEN <<"-">> ELSE <<>>) \o FormatNat(Abs(v) \div 10)
     \o <<".", DigitChars[(Abs(v) % 10) + 1]>>
FormatInt(n) == (IF n < 0 THEN <<"-">> ELSE <<>>) \o FormatNat(Abs(n))

\* The envelope a device sends for a reading r under the configured mapping: its
\* four values as JSON numbers, or as the strings of their decimal text.
Forms == {"numbers", "strings"}
Encode(r, form) ==
  LET f(v) == IF form = "numbers" THEN Num(v) ELSE Str(FormatFloat(v))
      g(n) == IF form = "numbers" THEN Num(10 * n) ELSE Str(FormatInt(n))
  IN  Envelope(
        (SENSOR_FIELDS.temperature :> f(r.temperature)) @@
        (SENSOR_FIELDS.humidity :> f(r.humidity)) @@
        (SENSOR_FIELDS.battery :> f(r.battery)) @@
        (SENSOR_FIELDS.motion :> g(r.motion)))

\* Readings on both sides of zero and of the thresholds.
CodecReadings ==
  [temperature : {-5, 0, 149, 360}, humidity : {0, 300, 801},
   battery : {0, 35}, motion : {-2, 0, 12}]

\* A reading to be sent and the form its envelope takes.
InitCodec ==
  /\ config = Config
  /\ readings = <<>>
  /\ alerts = <<>>
  /\ pc = "start"
  /\ running = FALSE
  /\ is_connected = FALSE
  /\ client = "none"
  /\ lines = <<>>
  /\ idx = 1
  /\ processed_count = 0
  /\ fetch_result = NoValue
  /\ last = NoCall
  /\ fetch_log = NoFetch
  /\ connection = NoSession
  /\ writers = NoWriters
  /\ main = Main("module")
  /\ \E r \in CodecReadings, form \in Forms :
       response = [op |-> "reading", reading |-> r, form |-> form]

\* The envelope is built and the decode step of process_message (lines 203-214) is
\* applied to it.
DecodeEncoded ==
  /\ response.op = "reading"
  /\ LET envelope == Encode(response.reading, response.form)
     IN  response' = [op |-> "decoded", reading |-> response.reading,
                      form |-> response.form, envelope |-> envelope,
                      decoded |-> Decode(envelope, CHOOSE t \in Times : TRUE)]
  /\ UNCHANGED <<readings, alerts, config, pc, running, is_connected, client, lines, idx,
                 processed_count, fetch_result, last, fetch_log, connection, main, writers>>

CodecSpec == InitCodec /\ [][DecodeEncoded]_vars

\* ------------------------------------------------- two writers of one store
\* Two collectors share the database file, one in its backfill and one in its live
\* loop. save_sensor_data opens a connection of its own (line 91); the INSERT of lines
\* 94-98 takes the write lock of the file and the commit of line 100 gives it back.
\* A connection that finds the lock taken waits for it, for at most the timeout of
\* sqlite3.connect, and then raises. In this specification the store fails in no
\* other way.
WriterPayloads(w) ==
  IF w = "backfill" THEN {Envelope(Scenario), Envelope(BadTemp)}
                    ELSE {Envelope(AtBoundsA), Envelope(BadTemp)}

LockHeld == \E w \in Writers : writers[w].pc = "inserting"

StoreIdle ==
  UNCHANGED <<alerts, config, pc, running, is_connected, client, lines, idx, processed_count,
              fetch_result, last, fetch_log, connection, main, response>>

\* process_message up to the INSERT of save_sensor_data: a payload that does not decode
\* ends the call (lines 230-232); otherwise the INSERT takes the free write lock.
InsertBegin(w) ==
  /\ writers[w].pc = "idle"
  /\ Len(writers[w].calls) < MaxCalls
  /\ \E p \in WriterPayloads(w) :
       IF ~Decoded(p, DeviceTime).ok
         THEN writers' = [writers EXCEPT ![w].calls = Append(@, [payload |-> p, result |-> FALSE])]
         ELSE /\ ~LockHeld
              /\ writers' = [writers EXCEPT ![w] = [pc |-> "inserting", payload |-> p,
                                                     calls |-> @.calls]]
  /\ UNCHANGED readings
  /\ StoreIdle

\* The INSERT finds the lock taken for longer than the timeout: the exception is
\* caught at lines 106-108 and save_sensor_data returns False.
InsertLocked(w) ==
  /\ writers[w].pc = "idle"
  /\ Len(writers[w].calls) < MaxCalls
  /\ LockHeld
  /\ \E p \in WriterPayloads(w) :
       /\ Decoded(p, DeviceTime).ok
       /\ writers' = [writers EXCEPT ![w].calls = Append(@, [payload |-> p, result |-> FALSE])]
  /\ UNCHANGED readings
  /\ StoreIdle

\* Lines 100-104: the commit makes the row durable and frees the lock; True is returned.
InsertCommit(w) ==
  /\ writers[w].pc = "inserting"
  /\ LET p == writers[w].payload
         saved == save_sensor_data(readings, Decoded(p, DeviceTime), p, TRUE)
     IN  /\ readings' = saved.rows
         /\ writers' = [writers EXCEPT ![w] = [pc |-> "idle",
                           calls |-> Append(@.calls, [payload |-> p, result |-> saved.ok])]]
  /\ StoreIdle

NextStore ==
  \/ \E w \in Writers : InsertBegin(w)
  \/ \E w \in Writers : InsertLocked(w)
  \/ \E w \in Writers : InsertCommit(w)

StoreSpec == Init /\ [][NextStore]_vars

\* ------------------------------------------------- vocabulary of the properties
IsLive == last.op = "live"
IsBackfill == last.op = "backfill"
Ingested == IsLive \/ IsBackfill

\* Rows the last process_message call added to each table.
NewReadings == SubSeq(readings, last.nReadings + 1, Len(readings))
NewAlerts == SubSeq(alerts, last.nAlerts + 1, Len(alerts))
AlertTypes(rows) == {rows[i].alert_type : i \in 1..Len(rows)}
LastRow == readings[Len(readings)]

LacksUplink(p) == "uplink_message" \notin DOMAIN p
LacksDecoded(p) == ~LacksUplink(p) /\ "decoded_payload" \notin DOMAIN p.uplink_message
Fields(p) == p.uplink_message.decoded_payload
\* Some mapped field is present and cannot be coerced to its type.
BadField(p) ==
  /\ ~LacksUplink(p) /\ ~LacksDecoded(p)
  /\ \/ \E f \in {"field5", "field3", "field1"} : f \in DOMAIN Fields(p) /\ ~PyFloat(Fields(p)[f]).ok
     \/ "field4" \in DOMAIN Fields(p) /\ ~PyInt(Fields(p)["field4"]).ok
WellFormed(p) == ~LacksUplink(p) /\ ~LacksDecoded(p) /\ ~BadField(p)
MappedFields == {"field5", "field3", "field1", "field4"}

\* The measurements of the last call's payload, for a payload that is well formed,
\* and the alerts the evaluator computes for them.
Measured == Decoded(last.payload, DeviceTime)
Computed == check_alerts(config, Measured.temperature, Measured.humidity, Measured.battery)

\* ------------------------------------------------- C1
\* C1: no step of fetch_historical_data (the request, a line of the batch, the return)
\* changes the alerts table, whatever the reading of the line and the thresholds.
C1_BackfillNeverAlerts ==
  [][(FetchOk \/ FetchFail \/ FetchLine \/ FetchReturn) => alerts' = alerts]_vars

\* A backfill line was persisted whose values, on the live path, raise an alert.
C1_Witness ==
  /\ IsBackfill /\ last.success
  /\ Len(readings) = last.nReadings + 1
  /\ Computed # <<>>
  /\ alerts = <<>>

\* ------------------------------------------------- C2
\* C2 as stated: after every live ingestion that persisted its reading, the number of
\* alert rows added equals the number of alerts the evaluator computed, also when the
\* alert insert failed.
C2_Original ==
  (IsLive /\ last.success) => Len(NewAlerts) = Len(Computed)

\* C2 amended: after every live ingestion that persisted its reading, the alert rows
\* added are the alerts the evaluator computed (same kinds, values and thresholds, in
\* order) when the alert transaction commits, and none when save_alerts fails.
C2_AlertsPersistedUnlessInsertFails ==
  (IsLive /\ last.success) =>
    IF last.alertsOk
      THEN /\ Len(NewAlerts) = Len(Computed)
           /\ \A i \in 1..Len(Computed) :
                /\ NewAlerts[i].alert_type = Computed[i].alert_type
                /\ NewAlerts[i].value = Computed[i].value
                /\ NewAlerts[i].threshold = Computed[i].threshold
      ELSE NewAlerts = <<>>

\* A live reading with several computed alerts whose alert insert failed: none stored.
C2_Witness ==
  /\ IsLive /\ last.success /\ ~last.alertsOk
  /\ Len(Computed) >= 2
  /\ NewAlerts = <<>>

\* ------------------------------------------------- C3
\* C3: every ingestion of a well-formed envelope with a working store appends exactly
\* one reading row holding that envelope, whatever rows the table already holds.
C3_NotDeduplicated ==
  (Ingested /\ WellFormed(last.payload) /\ last.dbOk) =>
    /\ last.success
    /\ Len(readings) = last.nReadings + 1
    /\ LastRow.raw_data = last.payload

\* The same envelope was ingested by the backfill and then live: two identical rows.
C3_Witness ==
  /\ IsLive /\ last.success /\ last.alertsOk
  /\ Len(readings) = 2
  /\ readings[1] = readings[2]
  /\ Len(alerts) = 1

\* ------------------------------------------------- C4
\* C4: a live reading whose temperature equals TEMPERATURE_MIN or TEMPERATURE_MAX gets
\* no temperature alert, one whose humidity equals HUMIDITY_MIN or HUMIDITY_MAX no
\* humidity alert, one whose battery equals BATTERY_LOW no battery alert.
C4_ThresholdsExclusive ==
  (IsLive /\ last.success) =>
    LET types == AlertTypes(NewAlerts) \cup AlertTypes(Computed)
    IN  /\ LastRow.temperature \in {config.TEMPERATURE_MIN, config.TEMPERATURE_MAX}
             => types \cap {"TEMP_LOW", "TEMP_HIGH"} = {}
        /\ LastRow.humidity \in {config.HUMIDITY_MIN, config.HUMIDITY_MAX}
             => types \cap {"HUMIDITY_LOW", "HUMIDITY_HIGH"} = {}
        /\ LastRow.battery_voltage = config.BATTERY_LOW
             => "BATTERY_LOW" \notin types

\* Two live readings that sit on all five thresholds between them; no alert stored.
C4_Witness ==
  /\ IsLive /\ last.success /\ last.nReadings = 1
  /\ Len(readings) = 2
  /\ readings[1].temperature = config.TEMPERATURE_MAX
  /\ readings[1].humidity = config.HUMIDITY_MIN
  /\ readings[1].battery_voltage = config.BATTERY_LOW
  /\ readings[2].temperature = config.TEMPERATURE_MIN
  /\ readings[2].humidity = config.HUMIDITY_MAX
  /\ readings[2].battery_voltage = config.BATTERY_LOW
  /\ alerts = <<>>

\* ------------------------------------------------- C5
\* C5: under every threshold configuration, also one whose minimum exceeds its
\* maximum, the evaluator emits each kind of alert at most once, never both the low
\* and the high alert of one metric, and so at most three alerts for a reading.
C5_LowHighExclusive ==
  last.op = "evaluate" =>
    LET types == AlertTypes(last.batch)
    IN  /\ Cardinality(types) = Len(last.batch)
        /\ ~({"TEMP_LOW", "TEMP_HIGH"} \subseteq types)
        /\ ~({"HUMIDITY_LOW", "HUMIDITY_HIGH"} \subseteq types)
        /\ Len(last.batch) <= 3

\* A temperature below the minimum and above the maximum at once, with three alerts.
C5_Witness ==
  /\ last.op = "evaluate"
  /\ config.TEMPERATURE_MIN > config.TEMPERATURE_MAX
  /\ last.temperature < config.TEMPERATURE_MIN
  /\ last.temperature > config.TEMPERATURE_MAX
  /\ Len(last.batch) = 3

\* ------------------------------------------------- C6
\* The kinds of alert whose strict comparison holds for a stored reading.
StrictKinds(row) ==
  (IF row.temperature < config.TEMPERATURE_MIN THEN {"TEMP_LOW"} ELSE {})
  \cup (IF row.temperature > config.TEMPERATURE_MAX THEN {"TEMP_HIGH"} ELSE {})
  \cup (IF row.humidity < config.HUMIDITY_MIN THEN {"HUMIDITY_LOW"} ELSE {})
  \cup (IF row.humidity > config.HUMIDITY_MAX THEN {"HUMIDITY_HIGH"} ELSE {})
  \cup (IF row.battery_voltage < config.BATTERY_LOW THEN {"BATTERY_LOW"} ELSE {})
\* The measurement and the threshold an alert of a kind must carry.
ObservedOf(kind, row) ==
  CASE kind \in {"TEMP_LOW", "TEMP_HIGH"} -> row.temperature
    [] kind \in {"HUMIDITY_LOW", "HUMIDITY_HIGH"} -> row.humidity
    [] OTHER -> row.battery_voltage
ThresholdOf(kind) ==
  CASE kind = "TEMP_LOW" -> config.TEMPERATURE_MIN
    [] kind = "TEMP_HIGH" -> config.TEMPERATURE_MAX
    [] kind = "HUMIDITY_LOW" -> config.HUMIDITY_MIN
    [] kind = "HUMIDITY_HIGH" -> config.HUMIDITY_MAX
    [] OTHER -> config.BATTERY_LOW
IsString(f, key) == key \in DOMAIN f /\ f[key].k = "str"

\* C6: after a live ingestion that persisted its reading, the row holds the coerced
\* strings of field5, field3, field1, field4 as temperature, humidity, battery, motion;
\* when the alert insert commits, an alert of a kind is stored exactly when the strict
\* comparison of that kind holds, with the observed value and the violated threshold;
\* the envelope of the scenario gives 36.0, 50.0, 3.5, 0 and one TEMP_HIGH alert
\* with value 36.0 and threshold 35.0.
C6_CoercedAndStrictChecks ==
  (IsLive /\ last.success) =>
    LET f == Fields(last.payload)
        row == LastRow
    IN  /\ IsString(f, "field5") => row.temperature = ParseFloat(f["field5"].s).v
        /\ IsString(f, "field3") => row.humidity = ParseFloat(f["field3"].s).v
        /\ IsString(f, "field1") => row.battery_voltage = ParseFloat(f["field1"].s).v
        /\ IsString(f, "field4") => row.motion_count = ParseInt(f["field4"].s).v
        /\ f = Scenario =>
             /\ row.temperature = 360 /\ row.humidity = 500
             /\ row.battery_voltage = 35 /\ row.motion_count = 0
        /\ last.alertsOk =>
             /\ AlertTypes(NewAlerts) = StrictKinds(row)
             /\ Len(NewAlerts) = Cardinality(StrictKinds(row))
             /\ \A i \in 1..Len(NewAlerts) :
                  /\ NewAlerts[i].value = ObservedOf(NewAlerts[i].alert_type, row)
                  /\ NewAlerts[i].threshold = ThresholdOf(NewAlerts[i].alert_type)
        /\ (f = Scenario /\ last.alertsOk) =>
             /\ Len(NewAlerts) = 1
             /\ NewAlerts[1].alert_type = "TEMP_HIGH"
             /\ NewAlerts[1].value = 360
             /\ NewAlerts[1].threshold = 350

\* The scenario envelope arrived live and its single alert was stored.
C6_Witness ==
  /\ IsLive /\ last.success /\ last.alertsOk
  /\ last.payload = Envelope(Scenario)
  /\ Len(NewAlerts) = 1
  /\ LastRow.temperature = 360

\* ------------------------------------------------- C7
\* C7: a process_message call, live or backfill, on an envelope that lacks the uplink
\* section, lacks the decoded fields, or holds a mapped field that cannot be coerced
\* returns False and adds no reading row and no alert row.
C7_DecodeFailureStoresNothing ==
  (Ingested /\ ~WellFormed(last.payload)) =>
    /\ ~last.success
    /\ Len(readings) = last.nReadings
    /\ Len(alerts) = last.nAlerts

\* A live envelope with an uncoercible field was handled while the store held a row.
C7_Witness ==
  /\ IsLive /\ BadField(last.payload)
  /\ ~last.success
  /\ Len(readings) = 1 /\ last.nReadings = 1

\* ------------------------------------------------- C8
\* C8: an envelope with uplink and decoded fields that lacks some mapped field, the
\* present ones coercible, is persisted (store working) with 0 for every missing
\* measurement and the coerced value of every present one.
C8_MissingFieldsDefaultToZero ==
  (Ingested /\ WellFormed(last.payload) /\ last.dbOk
     /\ MappedFields \ DOMAIN Fields(last.payload) # {}) =>
    LET f == Fields(last.payload)
        row == LastRow
    IN  /\ last.success
        /\ Len(readings) = last.nReadings + 1
        /\ row.temperature = IF "field5" \in DOMAIN f THEN PyFloat(f["field5"]).v ELSE 0
        /\ row.humidity = IF "field3" \in DOMAIN f THEN PyFloat(f["field3"]).v ELSE 0
        /\ row.battery_voltage = IF "field1" \in DOMAIN f THEN PyFloat(f["field1"]).v ELSE 0
        /\ row.motion_count = IF "field4" \in DOMAIN f THEN PyInt(f["field4"]).v ELSE 0

\* The envelope without temperature and motion was stored: zeros next to 80.1 and 3.5.
C8_Witness ==
  /\ Ingested /\ last.success
  /\ Fields(last.payload) = NoTempMotion
  /\ LastRow.temperature = 0 /\ LastRow.motion_count = 0
  /\ LastRow.humidity = 801 /\ LastRow.battery_voltage = 35

\* ------------------------------------------------- C9
IsGoodLine(l) == l.k = "json" /\ WellFormed(l.doc)
\* The documents of the well-formed lines among the first n lines, in order.
GoodDocs(n) ==
  LET sel == SelectSeq(SubSeq(lines, 1, n), IsGoodLine)
  IN  [i \in 1..Len(sel) |-> sel[i].doc]
\* The envelopes of the rows the running fetch has added.
FetchedDocs ==
  [i \in 1..(Len(readings) - fetch_log.nReadings) |-> readings[fetch_log.nReadings + i].raw_data]

\* C9: at every point of the loop over a 200 response, and so at its end, the rows the
\* fetch has added are exactly the well-formed lines among those passed, in order
\* (no store failure), and the alerts table is as it was when the fetch started.
C9_BackfillLinesIndependent ==
  (pc = "lines" /\ ~fetch_log.dbFailed) =>
    /\ FetchedDocs = GoodDocs(idx - 1)
    /\ processed_count = Len(GoodDocs(idx - 1))
    /\ Len(alerts) = fetch_log.nAlerts

\* A response of three lines with the middle one not JSON: two readings, no alert.
C9_Witness ==
  /\ pc = "lines" /\ idx > Len(lines) /\ ~fetch_log.dbFailed
  /\ Len(lines) = 3 /\ lines[2] = Malformed
  /\ Len(readings) = 2 /\ alerts = <<>>
  /\ processed_count = 2

C12_BackfillOnceBeforeLive ==
  [][/\ (pc' = "request" /\ pc # "request" => pc = "start")
     /\ (pc # "start" => pc' # "start")
     /\ (client = "none" /\ client' # "none" => pc = "connect" /\ fetch_result # NoValue)
     /\ (last' # last /\ last'.op = "backfill" => pc = "lines" /\ client = "none")
     /\ (last' # last /\ last'.op \in {"live", "dropped"} =>
           pc = "loop" /\ lines = <<>> /\ client = "looping")]_vars

\* A live reading was persisted on top of rows persisted before it.
C12_Witness ==
  IsLive /\ last.success /\ last.nReadings >= 1 /\ client = "looping"

\* ------------------------------------------------------------------ C13
\* C13: whatever fetch_historical_data returns, run() is then at start_mqtt_client, and
\* once the request has been sent the broker connection is attempted (the client object
\* is created) unless the process is shut down first.
C13_BackfillNeverBlocksLive ==
  /\ [](fetch_result # NoValue => pc = "connect")
  /\ (pc = "request") ~> (client # "none" \/ main.exited)

\* The connection was attempted after a backfill that ingested nothing.
C13_Witness ==
  client # "none" /\ last = NoCall /\ readings = <<>> /\ ~main.exited

\* ------------------------------------------------------------------ C14
\* C14: a failed connect attempt (start_mqtt_client returned False, leaving a client
\* that never looped) never ends the collector's run: run() has not returned, so that
\* a later attempt can still be made.
C14_FailedConnectKeepsRunning ==
  client = "created" => pc # "done"

\* ------------------------------------------------------------------ C15
\* C15: in every run mode, a process that has exited on a shutdown request (a signal or
\* EnvironmentalMonitoringSystem.stop) executed stop_mqtt_client first: it leaves no
\* client that was started and not stopped.
C15_ShutdownStopsClient ==
  main.exited /\ main.shutdown => client # "looping"

\* ------------------------------------------------------------------ C16
\* C16: run() has returned (the live client is in its terminal state and processes no
\* further message) only if an operator asked for the shutdown: stop() was called or
\* an interrupt was raised; no broker, network, decode or store event alone ends it.
C16_StoppedOnlyOnShutdown ==
  pc = "done" => main.shutdown

\* ------------------------------------------------------------------ C17
\* C17: a live message that fails (not JSON, snapshot not written, decode error, failed
\* insert) is handled inside on_message: the step changes neither the connection flag,
\* the client, the session, the position of run() nor any table; and a well-formed
\* message that follows a failed one, with the store accepting the insert, is persisted
\* as any other: its decoded values in one new row.
C17_FailedMessageKeepsSubscription ==
  [][/\ (last' # last /\ last'.op \in {"live", "dropped"} /\ ~last'.success) =>
          /\ is_connected' = is_connected /\ client' = client /\ connection' = connection
          /\ pc' = pc /\ running' = running
          /\ readings' = readings /\ alerts' = alerts
     /\ (/\ last.op \in {"live", "dropped"} /\ ~last.success
         /\ last' # last /\ last'.op = "live"
         /\ WellFormed(last'.payload) /\ last'.dbOk) =>
          LET d == Decoded(last'.payload, DeviceTime)
              row == readings'[Len(readings')]
          IN  /\ last'.success
              /\ Len(readings') = Len(readings) + 1
              /\ SubSeq(readings', 1, Len(readings)) = readings
              /\ row.temperature = d.temperature /\ row.humidity = d.humidity
              /\ row.battery_voltage = d.battery /\ row.motion_count = d.motion
              /\ row.raw_data = last'.payload
              /\ is_connected' /\ client' = "looping"]_vars

\* A live message failed and the subscription is as it was.
C17_Witness ==
  /\ last.op \in {"live", "dropped"} /\ ~last.success
  /\ client = "looping" /\ is_connected /\ connection.subscribed

\* ------------------------------------------------------------------ C18
\* C18: is_connected is true exactly when the most recent connection event was a
\* connect the broker accepted, and on such a connection the device topic is
\* subscribed; the session changes only in on_connect and on_disconnect, so no other
\* operation moves the flag.
C18_FlagFollowsBrokerEvents ==
  /\ is_connected = connection.accepted
  /\ connection.accepted => connection.subscribed

\* The broker accepted the connection while earlier messages had been ingested and
\* the collector was asked to stop: the flag is still set.
C18_Witness ==
  is_connected /\ connection.subscribed /\ client = "looping" /\ IsLive /\ ~running

\* ------------------------------------------------------------------ C19
\* C19: every store write failure reaches the caller: after a failed insert of a
\* reading the value returned is not the value of a success, and after a failed insert
\* of alerts the value save_alerts gave back is not the value it gives on success.
C19_StoreFailuresReported ==
  Ingested =>
    /\ (~last.dbOk => PyBool(last.success) # PyBool(TRUE))
    /\ (~last.alertsOk => last.alerts_result # save_alerts_returns(TRUE))

\* ------------------------------------------------------------------ C20
\* C20: every alert row written for a live reading carries the timestamp of that
\* reading's row (the envelope's received_at, or the fallback time of the reading).
C20_AlertsShareReadingTimestamp ==
  (IsLive /\ last.success) =>
    \A i \in 1..Len(NewAlerts) : NewAlerts[i].timestamp = LastRow.timestamp

\* ------------------------------------------------------------------ C21
\* How often p occurs among the payloads of calls, and among the rows of the table
\* with the values p decodes to.
RECURSIVE CountCalls(_, _)
CountCalls(calls, p) ==
  IF calls = <<>> THEN 0
  ELSE (IF Head(calls).payload = p THEN 1 ELSE 0) + CountCalls(Tail(calls), p)
RECURSIVE CountRows(_, _)
CountRows(rows, p) ==
  IF rows = <<>> THEN 0
  ELSE LET d == Decoded(p, DeviceTime)
           r == Head(rows)
       IN  (IF /\ r.raw_data = p /\ r.timestamp = d.received_at
               /\ r.temperature = d.temperature /\ r.humidity = d.humidity
               /\ r.battery_voltage = d.battery /\ r.motion_count = d.motion
              THEN 1 ELSE 0) + CountRows(Tail(rows), p)

\* C21: in any interleaving of the two writers, once their calls have returned, every
\* reading whose decode succeeded is in the table exactly once per call, with its own
\* field values.
C21_NoReadingLostOrCorrupted ==
  (\A w \in Writers : writers[w].pc = "idle") =>
    \A w \in Writers : \A p \in WriterPayloads(w) :
      Decoded(p, DeviceTime).ok => CountRows(readings, p) = CountCalls(writers[w].calls, p)


\* C22: the reading store is append-only. No step of the collector (backfill, live
\* message, connect, disconnect, shutdown) and no dashboard query updates or deletes a
\* stored reading: every step leaves the rows that were stored where they were, with
\* their values, and at most adds rows after them.
C22_ReadingsAppendOnly ==
  [][/\ Len(readings') >= Len(readings)
     /\ SubSeq(readings', 1, Len(readings)) = readings]_vars

\* Two different readings are stored and the dashboard has answered a query on them.
C22_Witness ==
  /\ Len(readings) = 2
  /\ readings[1] # readings[2]
  /\ response.op = "latest"
  /\ response.ok
  /\ response.reading # NoValue

\* C23: recentAlerts(limit) answers with at most limit alerts (none for a limit below
\* one), in descending order of timestamp, for every integer limit that
\* /api/alerts?limit= hands over.
C23_RecentAlertsBounded ==
  response.op = "alerts" =>
    /\ Len(response.rows) <= (IF response.limit < 0 THEN 0 ELSE response.limit)
    /\ \A i, j \in 1..Len(response.rows) :
         i < j => response.rows[i].timestamp >= response.rows[j].timestamp

\* C24: decoding round-trips the numeric fields. The envelope built from a reading's
\* temperature, humidity, battery and motion under the configured field mapping, with
\* the values as JSON numbers or as decimal strings, decodes without error to the
\* same four values.
C24_DecodeRoundTrips ==
  response.op = "decoded" =>
    /\ response.decoded.ok
    /\ response.decoded.temperature = response.reading.temperature
    /\ response.decoded.humidity = response.reading.humidity
    /\ response.decoded.battery = response.reading.battery
    /\ response.decoded.motion = response.reading.motion

\* A reading with a negative temperature and four different values has made the
\* trip as strings.
C24_Witness ==
  /\ response.op = "decoded"
  /\ response.form = "strings"
  /\ response.reading = [temperature |-> -5, humidity |-> 801, battery |-> 35, motion |-> 12]
  /\ response.decoded.ok

\* C25: alerts are persisted only for readings that were persisted. A live message
\* whose reading insert failed adds no alert row, and in every reachable state every
\* stored alert is an alert of some stored reading: its kind is one the thresholds
\* give for that reading and its value is that reading's measurement.
C25_AlertsOnlyForStoredReadings ==
  /\ (IsLive /\ NewReadings = <<>>) => NewAlerts = <<>>
  /\ \A i \in 1..Len(alerts) : \E j \in 1..Len(readings) :
       /\ alerts[i].alert_type \in StrictKinds(readings[j])
       /\ alerts[i].value = ObservedOf(alerts[i].alert_type, readings[j])

\* A live message that decodes to a reading outside its thresholds met a failing
\* reading insert.
C25_Witness ==
  /\ IsLive
  /\ WellFormed(last.payload)
  /\ ~last.dbOk
  /\ ~last.success
  /\ Computed # <<>>
  /\ NewReadings = <<>>
  /\ NewAlerts = <<>>

\* C26: a stop request is never lost. Once stop() has been called, whether before
\* run() sets running, during the backfill or during the live loop, the running flag
\* stays cleared and no broker connection is started.
C26_StopRequestNeverLost ==
  [][main.shutdown =>
       /\ ~running => ~running'
       /\ client = "none" => client' = "none"]_vars

\* C27: live messages are ingested one at a time in arrival order. When on_message
\* returns, the message has added at most one reading; a reading it added has the
\* highest row id and is the reading of that message, and the alert rows it added are
\* all alerts of that reading, stored after every alert of an earlier message.
C27_LiveMessagesInArrivalOrder ==
  IsLive =>
    /\ Len(NewReadings) <= 1
    /\ last.success <=> Len(NewReadings) = 1
    /\ ~last.success => NewAlerts = <<>>
    /\ last.success =>
         /\ LastRow.raw_data = last.payload
         /\ \A i \in 1..Len(NewAlerts) :
              /\ NewAlerts[i].alert_type \in StrictKinds(LastRow)
              /\ NewAlerts[i].value = ObservedOf(NewAlerts[i].alert_type, LastRow)

\* The second live message in a row stored its reading and its alerts after a first
\* one with another payload.
C27_Witness ==
  /\ IsLive
  /\ last.success
  /\ Len(readings) = 2
  /\ readings[1].raw_data # readings[2].raw_data
  /\ NewAlerts # <<>>
  /\ Len(alerts) > Len(NewAlerts)

\* C28: the alerts of one reading are persisted atomically. After a live message whose
\* reading was stored, whether its alert transaction committed or failed, either every
\* alert computed for the reading is in the store or none of them is.
C28_AlertBatchAtomic ==
  (IsLive /\ last.success) =>
    \/ NewAlerts = <<>>
    \/ /\ Len(NewAlerts) = Len(Computed)
       /\ AlertTypes(NewAlerts) = AlertTypes(Computed)

\* The transaction of a batch of two alerts failed while the table held the alert of
\* an earlier reading: that alert is still the only one.
C28_Witness ==
  /\ IsLive
  /\ last.success
  /\ ~last.alertsOk
  /\ Len(Computed) = 2
  /\ Len(alerts) = 1
  /\ NewAlerts = <<>>

\* The low alert a missing field stands for, and the threshold it is compared with
\* under the shipped configuration (15.0, 30.0 and 3.0, in tenths).
LowKindOf(field) ==
  CASE field = "field5" -> [kind |-> "TEMP_LOW", threshold |-> 150]
    [] field = "field3" -> [kind |-> "HUMIDITY_LOW", threshold |-> 300]
    [] OTHER -> [kind |-> "BATTERY_LOW", threshold |-> 30]
Raises(batch, field) ==
  \E i \in 1..Len(batch) :
    /\ batch[i].alert_type = LowKindOf(field).kind
    /\ batch[i].value = 0
    /\ batch[i].threshold = LowKindOf(field).threshold

\* C29: under the default thresholds a live envelope that omits the temperature, the
\* humidity or the battery field raises the matching low alert with observed value 0
\* and the default threshold, and the alert is stored when the alert insert works; the
\* same envelope on the backfill path stores no alert.
C29_MissingFieldRaisesLowAlert ==
  (Ingested /\ WellFormed(last.payload) /\ last.success) =>
    \A field \in {"field5", "field3", "field1"} \ DOMAIN Fields(last.payload) :
      /\ IsLive => Raises(Computed, field)
      /\ (IsLive /\ last.alertsOk) => Raises(NewAlerts, field)
      /\ IsBackfill => NewAlerts = <<>>

\* The envelope without humidity and battery arrived live and stored its three low
\* alerts, after the backfill had stored the envelope without temperature and no alert.
C29_Witness ==
  /\ IsLive
  /\ last.success
  /\ last.alertsOk
  /\ Fields(last.payload) = NoHumBat
  /\ Len(readings) = 2
  /\ Fields(readings[1].raw_data) = NoTempMotion
  /\ Len(alerts) = 3
  /\ Len(NewAlerts) = 3

\* C30: the snapshot write comes before ingestion and gates it. A live message is
\* processed only after data/latest_message.json was written; a message whose snapshot
\* write failed is dropped with no reading and no alert persisted, and the client of a
\* collector in its live loop is still looping. A backfill whose write of
\* data/historical_data.json failed after the 200 response has persisted no reading
\* and no alert and has returned False to run(), which goes on to start the client.
C30_SnapshotGatesIngestion ==
  /\ IsLive => last.snapshot
  /\ (last.op = "dropped" /\ last.cause = "snapshot") =>
       /\ NewReadings = <<>>
       /\ NewAlerts = <<>>
       /\ pc = "loop" => client = "looping"
  /\ fetch_log.failed = "snapshot" =>
       /\ fetch_result = PyBool(FALSE)
       /\ last = NoCall
       /\ Len(readings) = fetch_log.nReadings
       /\ Len(alerts) = fetch_log.nAlerts
       /\ pc = "connect"

\* The write of data/historical_data.json failed and fetch_historical_data has
\* returned to run().
C30_Witness ==
  /\ fetch_log.failed = "snapshot"
  /\ fetch_result = PyBool(FALSE)
  /\ pc = "connect"
  /\ running

====
